---- MODULE Spec2Model ----
(***************************************************************************)
(* Model of the /chat summarization pipeline of src/app.py: request        *)
(* validation, the direct-text / OCR / vision fallback chain and the two   *)
(* language-model calls.  One request is processed at a time; every call   *)
(* into an external collaborator (PDF parser, rasterizer, OCR engine,      *)
(* LLM API) either returns a value drawn from a small set or raises.       *)
(* Strings are sequences of one-character strings so that str.strip() and  *)
(* Python truthiness are computed, not assumed.                            *)
(***************************************************************************)
EXTENDS Integers, Sequences, FiniteSets, TLC

\* ---------------------------------------------------------------- bounds
\* Largest number of pages / images a collaborator returns for a document.
MaxPages == 2

\* ------------------------------------------------------------- strings
NL == "\n"
SP == " "
Whitespace == {SP, NL}

RECURSIVE LStrip(_)
LStrip(s) ==
    IF s = <<>> THEN <<>>
    ELSE IF Head(s) \in Whitespace THEN LStrip(Tail(s)) ELSE s

RECURSIVE RStrip(_)
RStrip(s) ==
    IF s = <<>> THEN <<>>
    ELSE IF s[Len(s)] \in Whitespace THEN RStrip(SubSeq(s, 1, Len(s) - 1)) ELSE s

\* str.strip()
Strip(s) == RStrip(LStrip(s))

\* Python truthiness of a str
Truthy(s) == s # <<>>

\* Optional str (the return value of summarize_with_vision)
None == [isNone |-> TRUE, s |-> <<>>]
Some(s) == [isNone |-> FALSE, s |-> s]
TruthyOpt(o) == (~o.isNone) /\ Truthy(o.s)

\* ------------------------------------------------- collaborator outputs
\* page.extract_text() results: no text, whitespace only, text, padded text
PageTexts == {<<>>, <<SP>>, <<"a">>, <<SP, "a">>}
\* pytesseract.image_to_string() results
OcrTexts == {<<>>, <<SP>>, <<"b">>, <<"b", SP>>}
\* response.choices[0].message.content of a chat completion
Answers == {<<>>, <<"s">>}

\* ------------------------------------------------------------ requests
\* PDF_FOLDER contents (the document folder is read-only to the pipeline)
Uploads == {"a.pdf"}

PdfNone == [type |-> "none", s |-> ""]
PdfValues ==
    { PdfNone,
      [type |-> "str", s |-> ""],
      [type |-> "str", s |-> "a.pdf"],
      [type |-> "str", s |-> "ghost.pdf"],
      [type |-> "int", s |-> "5"] }

\* request.get_json(): JSON null (data is None) or an object; data.get("pdf")
\* is PdfNone when the field is missing.
Bodies == {[json |-> "null", pdf |-> PdfNone]} \cup
          {[json |-> "object", pdf |-> p] : p \in PdfValues}
NoData == [json |-> "none", pdf |-> PdfNone]

\* `not pdf_filename`
PyNot(p) == p.type = "none" \/ (p.type = "str" /\ p.s = "")

\* os.path.exists(os.path.join(PDF_FOLDER, pdf_filename)) for a str filename
path_exists(p) == p.s \in Uploads

\* ----------------------------------------------------------- responses
Resp(st, k, m, a) == [status |-> st, key |-> k, msg |-> m, answer |-> a]
NoResponse == Resp(0, "none", "", <<>>)
Proceed == Resp(0, "proceed", "", <<>>)
Unhandled(exc) == Resp(500, "unhandled", exc, <<>>)
Err(st, m) == Resp(st, "error", m, <<>>)
Ok(a) == Resp(200, "answer", "", a)

NoFilenameError == Err(400, "No PDF filename provided")
FileNotFoundError == Err(404, "File not found")
NotConfiguredError == Err(500, "OpenAI API key not configured")

chat_llm_error_wrong == Err(500, "Processing error")
\* line 271: {"error": "LLM error: <e>"}, 500
chat_llm_error == Err(500, "LLM error")

chat_total_failure_wrong == Err(500, "Processing error")
\* line 280
chat_total_failure == Err(500, "Could not extract any text or summarize PDF")

VARIABLES
    client,          \* TRUE iff OPENAI_API_KEY was present at startup
    pc,              \* position of the request handler
    data,            \* request.get_json() of the current request
    validated,       \* the request passed the three checks of lines 233-241
    text,            \* extract_pdf_text: text
    left,            \* pages / images still to iterate in the current loop
    final_text,      \* value returned by extract_pdf_text
    directText,      \* text buffer when the direct tier ended (line 44)
    directPartial,   \* text buffer when the direct tier raised
    ocrText,         \* what the OCR tier appended to the buffer
    images,          \* summarize_with_vision: len(images)
    vision_summary,  \* return value of summarize_with_vision
    parserCalls,     \* PdfReader(pdf_path) invocations
    rasterCalls,     \* convert_from_path invocations, in order
    ocrCalls,        \* pytesseract.image_to_string invocations
    llmCalls,        \* client.chat.completions.create invocations, in order
    ocrInvoked,      \* times the OCR tier was entered
    visionInvoked,   \* times summarize_with_vision was called
    directRaised,    \* the direct tier raised (caught at line 41)
    ocrRaised,       \* the OCR tier raised (caught at line 57)
    visionRaised,    \* summarize_with_vision raised (caught at line 103)
    llmFailed,       \* kinds of model calls that raised
    response         \* HTTP response of the current request

vars == <<client, pc, data, validated, text, left, final_text, directText,
          directPartial, ocrText, images, vision_summary, parserCalls,
          rasterCalls, ocrCalls, llmCalls, ocrInvoked, visionInvoked,
          directRaised, ocrRaised, visionRaised, llmFailed, response>>


\* ------------------------------------------------- decisions of the code
chat_validate_no_exists_check(d, c) ==
    IF d.json = "null" THEN Unhandled("AttributeError")
    ELSE IF PyNot(d.pdf) THEN NoFilenameError
    ELSE IF d.pdf.type # "str" THEN Unhandled("TypeError")
    ELSE IF ~c THEN NotConfiguredError
    ELSE Proceed

chat_validate_no_client_check(d, c) ==
    IF d.json = "null" THEN Unhandled("AttributeError")
    ELSE IF PyNot(d.pdf) THEN NoFilenameError
    ELSE IF d.pdf.type # "str" THEN Unhandled("TypeError")
    ELSE IF ~path_exists(d.pdf) THEN FileNotFoundError
    ELSE Proceed

\* chat, lines 230-241: the checks made before the pipeline starts, in the
\* order of the code.  data.get on None and os.path.join on a non-str raise
\* outside the try block of line 243.
chat_validate(d, c) ==
    IF d.json = "null" THEN Unhandled("AttributeError")
    ELSE IF PyNot(d.pdf) THEN NoFilenameError
    ELSE IF d.pdf.type # "str" THEN Unhandled("TypeError")
    ELSE IF ~path_exists(d.pdf) THEN FileNotFoundError
    ELSE IF ~c THEN NotConfiguredError
    ELSE Proceed

\* lines 38-39: if page_text: text += page_text + "\n"
direct_append(t, page_text) ==
    IF Truthy(page_text) THEN t \o page_text \o <<NL>> ELSE t

direct_except_reset(t) == <<>>
\* lines 41-42: the handler only logs; the buffer keeps what was accumulated
direct_except(t) == t

NeedOcr_nostrip(t) == t = <<>>
NeedOcr_always(t) == TRUE
\* line 44: if not text.strip()
NeedOcr(t) == ~Truthy(Strip(t))

\* line 54: text += ocr_text + "\n"
ocr_append(t, ocr_text) == t \o ocr_text \o <<NL>>

\* line 48: convert_from_path(pdf_path)
ocr_pages == [first_page |-> 0, last_page |-> 0]

vision_pages_all == [first_page |-> 0, last_page |-> 0]
\* line 74: convert_from_path(pdf_path, first_page=1, last_page=1)
vision_pages == [first_page |-> 1, last_page |-> 1]

\* lines 249 and 272: if text: ... else: ...
chat_branch(t) == IF Truthy(t) THEN "summarize" ELSE "vision_raster"

chat_after_text_failure_fallback == "vision_raster"
\* lines 269-271: a failed text summary returns at once
chat_after_text_failure == "done"

chat_vision_response_always_ok(vs) == Ok(vs.s)
\* lines 276-280
chat_vision_response(vs) ==
    IF TruthyOpt(vs) THEN Ok(vs.s) ELSE chat_total_failure

RasterCall(tier, pages) ==
    [tier |-> tier, first_page |-> pages.first_page, last_page |-> pages.last_page]
LLMCall(kind, model, content) ==
    [kind |-> kind, model |-> model, content |-> content]

\* ---------------------------------------------------------------- Init
\* State after module import: client is None iff the credential is absent
\* (lines 17-23); no request has been received.
Init ==
    /\ client \in BOOLEAN
    /\ pc = "idle"
    /\ data = NoData
    /\ validated = FALSE
    /\ text = <<>>
    /\ left = 0
    /\ final_text = <<>>
    /\ directText = <<>>
    /\ directPartial = <<>>
    /\ ocrText = <<>>
    /\ images = 0
    /\ vision_summary = None
    /\ parserCalls = 0
    /\ rasterCalls = <<>>
    /\ ocrCalls = 0
    /\ llmCalls = <<>>
    /\ ocrInvoked = 0
    /\ visionInvoked = 0
    /\ directRaised = FALSE
    /\ ocrRaised = FALSE
    /\ visionRaised = FALSE
    /\ llmFailed = {}
    /\ response = NoResponse

\* --------------------------------------------------------------- chat
\* lines 228-244: a new request arrives; every per-request local starts fresh
ChatBegin ==
    /\ pc \in {"idle", "done"}
    /\ \E d \in Bodies :
         LET r == chat_validate(d, client) IN
           /\ data' = d
           /\ validated' = (r = Proceed)
           /\ pc' = IF r = Proceed THEN "open" ELSE "done"
           /\ response' = IF r = Proceed THEN NoResponse ELSE r
    /\ text' = <<>>
    /\ left' = 0
    /\ final_text' = <<>>
    /\ directText' = <<>>
    /\ directPartial' = <<>>
    /\ ocrText' = <<>>
    /\ images' = 0
    /\ vision_summary' = None
    /\ parserCalls' = 0
    /\ rasterCalls' = <<>>
    /\ ocrCalls' = 0
    /\ llmCalls' = <<>>
    /\ ocrInvoked' = 0
    /\ visionInvoked' = 0
    /\ directRaised' = FALSE
    /\ ocrRaised' = FALSE
    /\ visionRaised' = FALSE
    /\ llmFailed' = {}
    /\ UNCHANGED client

\* ---------------------------------------------------- extract_pdf_text
\* lines 33-34: reader = PdfReader(pdf_path); it returns the pages or raises
OpenPdf ==
    /\ pc = "open"
    /\ parserCalls' = parserCalls + 1
    /\ \/ \E n \in 0..MaxPages :
            /\ left' = n
            /\ pc' = IF n = 0 THEN "check" ELSE "pages"
            /\ UNCHANGED <<text, directRaised, directPartial>>
       \/ /\ directRaised' = TRUE
          /\ directPartial' = text
          /\ text' = direct_except(text)
          /\ pc' = "check"
          /\ UNCHANGED left
    /\ UNCHANGED <<client, data, validated, final_text, directText, ocrText,
                   images, vision_summary, rasterCalls, ocrCalls, llmCalls,
                   ocrInvoked, visionInvoked, ocrRaised, visionRaised,
                   llmFailed, response>>

\* lines 36-42: one iteration of the page loop; extract_text returns or raises
ExtractPage ==
    /\ pc = "pages"
    /\ left > 0
    /\ \/ \E page_text \in PageTexts :
            /\ text' = direct_append(text, page_text)
            /\ left' = left - 1
            /\ pc' = IF left = 1 THEN "check" ELSE "pages"
            /\ UNCHANGED <<directRaised, directPartial>>
       \/ /\ directRaised' = TRUE
          /\ directPartial' = text
          /\ text' = direct_except(text)
          /\ pc' = "check"
          /\ UNCHANGED left
    /\ UNCHANGED <<client, data, validated, final_text, directText, ocrText,
                   images, vision_summary, parserCalls, rasterCalls, ocrCalls,
                   llmCalls, ocrInvoked, visionInvoked, ocrRaised,
                   visionRaised, llmFailed, response>>

\* line 44: the OCR tier is entered only when the buffer trims to nothing
CheckText ==
    /\ pc = "check"
    /\ directText' = text
    /\ IF NeedOcr(text)
         THEN /\ pc' = "ocr_raster"
              /\ ocrInvoked' = ocrInvoked + 1
         ELSE /\ pc' = "final"
              /\ UNCHANGED ocrInvoked
    /\ UNCHANGED <<client, data, validated, text, left, final_text,
                   directPartial, ocrText, images, vision_summary, parserCalls,
                   rasterCalls, ocrCalls, llmCalls, visionInvoked,
                   directRaised, ocrRaised, visionRaised, llmFailed, response>>

\* lines 46-49 and 57-61: images = convert_from_path(pdf_path), or it raises
OcrRasterize ==
    /\ pc = "ocr_raster"
    /\ rasterCalls' = Append(rasterCalls, RasterCall("ocr", ocr_pages))
    /\ \/ \E n \in 0..MaxPages :
            /\ left' = n
            /\ pc' = IF n = 0 THEN "final" ELSE "ocr"
            /\ UNCHANGED ocrRaised
       \/ /\ ocrRaised' = TRUE
          /\ pc' = "final"
          /\ UNCHANGED left
    /\ UNCHANGED <<client, data, validated, text, final_text, directText,
                   directPartial, ocrText, images, vision_summary, parserCalls,
                   ocrCalls, llmCalls, ocrInvoked, visionInvoked, directRaised,
                   visionRaised, llmFailed, response>>

\* lines 51-61: one iteration of the image loop; image_to_string returns or raises
OcrImage ==
    /\ pc = "ocr"
    /\ left > 0
    /\ ocrCalls' = ocrCalls + 1
    /\ \/ \E ocr_text \in OcrTexts :
            /\ text' = ocr_append(text, ocr_text)
            /\ ocrText' = ocr_append(ocrText, ocr_text)
            /\ left' = left - 1
            /\ pc' = IF left = 1 THEN "final" ELSE "ocr"
            /\ UNCHANGED ocrRaised
       \/ /\ ocrRaised' = TRUE
          /\ pc' = "final"
          /\ UNCHANGED <<text, ocrText, left>>
    /\ UNCHANGED <<client, data, validated, final_text, directText,
                   directPartial, images, vision_summary, parserCalls,
                   rasterCalls, llmCalls, ocrInvoked, visionInvoked,
                   directRaised, visionRaised, llmFailed, response>>

\* lines 63-67, 247-249, 272-275: extract_pdf_text returns text.strip() and
\* chat picks the text summary or calls summarize_with_vision
Finalize ==
    /\ pc = "final"
    /\ final_text' = Strip(text)
    /\ pc' = chat_branch(Strip(text))
    /\ visionInvoked' = IF chat_branch(Strip(text)) = "vision_raster"
                          THEN visionInvoked + 1 ELSE visionInvoked
    /\ UNCHANGED <<client, data, validated, text, left, directText,
                   directPartial, ocrText, images, vision_summary, parserCalls,
                   rasterCalls, ocrCalls, llmCalls, ocrInvoked, directRaised,
                   ocrRaised, visionRaised, llmFailed, response>>

\* lines 251-271: the text summary call and its response
TextSummarize ==
    /\ pc = "summarize"
    /\ llmCalls' = Append(llmCalls, LLMCall("text", "gpt-3.5-turbo", final_text))
    /\ \/ \E answer \in Answers :
            /\ response' = Ok(answer)
            /\ pc' = "done"
            /\ UNCHANGED <<llmFailed, visionInvoked>>
       \/ /\ llmFailed' = llmFailed \cup {"text"}
          /\ response' = chat_llm_error
          /\ pc' = chat_after_text_failure
          /\ visionInvoked' = IF chat_after_text_failure = "vision_raster"
                                THEN visionInvoked + 1 ELSE visionInvoked
    /\ UNCHANGED <<client, data, validated, text, left, final_text, directText,
                   directPartial, ocrText, images, vision_summary, parserCalls,
                   rasterCalls, ocrCalls, ocrInvoked, directRaised, ocrRaised,
                   visionRaised>>

\* ----------------------------------------------- summarize_with_vision
\* lines 72-75 and 103-108: rasterize the first page only, or raise
VisionRasterize ==
    /\ pc = "vision_raster"
    /\ rasterCalls' = Append(rasterCalls, RasterCall("vision", vision_pages))
    /\ \/ \E n \in 0..1 :
            /\ images' = n
            /\ pc' = "vision_encode"
            /\ UNCHANGED <<visionRaised, vision_summary>>
       \/ /\ visionRaised' = TRUE
          /\ vision_summary' = None
          /\ pc' = "vision_respond"
          /\ UNCHANGED images
    /\ UNCHANGED <<client, data, validated, text, left, final_text, directText,
                   directPartial, ocrText, parserCalls, ocrCalls, llmCalls,
                   ocrInvoked, visionInvoked, directRaised, ocrRaised,
                   llmFailed, response>>

\* lines 77-81 and 103-108: images[0] raises IndexError on an empty list;
\* saving / encoding the image returns or raises
VisionEncode ==
    /\ pc = "vision_encode"
    /\ \/ /\ images > 0
          /\ pc' = "vision_call"
          /\ UNCHANGED <<visionRaised, vision_summary>>
       \/ /\ visionRaised' = TRUE
          /\ vision_summary' = None
          /\ pc' = "vision_respond"
    /\ UNCHANGED <<client, data, validated, text, left, final_text, directText,
                   directPartial, ocrText, images, parserCalls, rasterCalls,
                   ocrCalls, llmCalls, ocrInvoked, visionInvoked, directRaised,
                   ocrRaised, llmFailed, response>>

\* lines 83-108: the vision model call returns its content or raises
VisionCall ==
    /\ pc = "vision_call"
    /\ llmCalls' = Append(llmCalls, LLMCall("vision", "gpt-4o-mini", <<>>))
    /\ \/ \E result \in Answers :
            /\ vision_summary' = Some(result)
            /\ UNCHANGED <<visionRaised, llmFailed>>
       \/ /\ visionRaised' = TRUE
          /\ llmFailed' = llmFailed \cup {"vision"}
          /\ vision_summary' = None
    /\ pc' = "vision_respond"
    /\ UNCHANGED <<client, data, validated, text, left, final_text, directText,
                   directPartial, ocrText, images, parserCalls, rasterCalls,
                   ocrCalls, ocrInvoked, visionInvoked, directRaised,
                   ocrRaised, response>>

\* lines 276-280: the response of the vision branch
VisionRespond ==
    /\ pc = "vision_respond"
    /\ response' = chat_vision_response(vision_summary)
    /\ pc' = "done"
    /\ UNCHANGED <<client, data, validated, text, left, final_text, directText,
                   directPartial, ocrText, images, vision_summary, parserCalls,
                   rasterCalls, ocrCalls, llmCalls, ocrInvoked, visionInvoked,
                   directRaised, ocrRaised, visionRaised, llmFailed>>

\* The handler of lines 282-286 ("Processing error") has no action: every
\* collaborator call inside the try of line 243 sits in an inner try whose
\* handler returns or falls through, so no exception reaches it.
Next ==
    \/ ChatBegin
    \/ OpenPdf
    \/ ExtractPage
    \/ CheckText
    \/ OcrRasterize
    \/ OcrImage
    \/ Finalize
    \/ TextSummarize
    \/ VisionRasterize
    \/ VisionEncode
    \/ VisionCall
    \/ VisionRespond

Spec == Init /\ [][Next]_vars

\* ------------------------------------------------------------- typing
TypeOK ==
    /\ client \in BOOLEAN
    /\ pc \in {"idle", "open", "pages", "check", "ocr_raster", "ocr", "final",
               "summarize", "vision_raster", "vision_encode", "vision_call",
               "vision_respond", "done"}
    /\ left \in 0..(MaxPages + 1)
    /\ images \in 0..1
    /\ parserCalls \in Nat
    /\ response.status \in {0, 200, 400, 404, 500}

\* ------------------------------------------------ observation helpers
TextCallCount == Cardinality({i \in 1..Len(llmCalls) : llmCalls[i].kind = "text"})
VisionRasterCount ==
    Cardinality({i \in 1..Len(rasterCalls) : rasterCalls[i].tier = "vision"})
NoCalls ==
    /\ parserCalls = 0
    /\ rasterCalls = <<>>
    /\ ocrCalls = 0
    /\ llmCalls = <<>>
    /\ ocrInvoked = 0
    /\ visionInvoked = 0
\* the direct tier has ended and line 44 has been evaluated
PostCheck ==
    validated /\ pc \in {"ocr_raster", "ocr", "final", "summarize",
                         "vision_raster", "vision_encode", "vision_call",
                         "vision_respond", "done"}
Finished == validated /\ pc = "done"
TotalFailureMsg == "Could not extract any text or summarize PDF"

\* ------------------------------------------------------------------ C1
\* C1: a validated request executes exactly one of {text summary call,
\* vision summarization} before it responds, never both and never neither;
\* when the extracted text is empty and the vision summarizer yields nothing
\* the response is an explicit 500 error, never a 200 with an empty summary.
C1_ExactlyOnePath ==
    /\ validated => TextCallCount + visionInvoked <= 1
    /\ Finished => TextCallCount + visionInvoked = 1
    /\ (validated /\ response # NoResponse) => TextCallCount + visionInvoked = 1
    /\ (Finished /\ final_text = <<>> /\ ~TruthyOpt(vision_summary))
          => (response.status = 500 /\ response.key = "error")

C1_Witness ==
    /\ Finished
    /\ final_text = <<>>
    /\ vision_summary = Some(<<>>)
    /\ visionInvoked = 1
    /\ TextCallCount = 0
    /\ response.key = "error"

\* ------------------------------------------------------------------ C2
\* C2 (as stated): when the direct tier yields non-empty text, neither OCR
\* nor vision is invoked, the text summarizer is called once with that text
\* and the response is 200 {"answer": ...}.
C2_Original ==
    (Finished /\ Truthy(Strip(directText))) =>
        /\ ocrInvoked = 0 /\ rasterCalls = <<>> /\ ocrCalls = 0
        /\ visionInvoked = 0
        /\ llmCalls = <<LLMCall("text", "gpt-3.5-turbo", Strip(directText))>>
        /\ response.status = 200 /\ response.key = "answer"

\* C2 (amended): when the direct tier yields non-empty text, neither OCR nor
\* vision is ever invoked and the text summarizer is called once with that
\* trimmed text; the response is 200 {"answer": ...} when that call returns
\* and 500 "LLM error" when it raises.
C2_DirectTextOnly ==
    /\ (validated /\ Truthy(Strip(directText))) =>
          /\ ocrInvoked = 0 /\ rasterCalls = <<>> /\ ocrCalls = 0
          /\ visionInvoked = 0
    /\ (Finished /\ Truthy(Strip(directText))) =>
          /\ llmCalls = <<LLMCall("text", "gpt-3.5-turbo", Strip(directText))>>
          /\ IF "text" \in llmFailed
               THEN response.status = 500 /\ response.msg = "LLM error"
               ELSE response.status = 200 /\ response.key = "answer"

C2_Witness ==
    /\ Finished
    /\ directText = <<SP, "a", NL>>
    /\ llmCalls = <<LLMCall("text", "gpt-3.5-turbo", <<"a">>)>>
    /\ rasterCalls = <<>>
    /\ response = Ok(<<"s">>)

\* ------------------------------------------------------------------ C3
\* C3: when the direct tier yields text that trims to nothing the OCR tier
\* runs; when its output is non-empty after trimming, that output is what
\* the text summarizer receives and the vision tier is never invoked.
C3_OcrFeedsTextSummary ==
    /\ (PostCheck /\ ~Truthy(Strip(directText))) =>
          /\ ocrInvoked = 1
          /\ (pc # "ocr_raster" => (Len(rasterCalls) >= 1 /\ rasterCalls[1].tier = "ocr"))
    /\ (PostCheck /\ ~Truthy(Strip(directText)) /\ Truthy(Strip(ocrText))) =>
          /\ visionInvoked = 0
          /\ VisionRasterCount = 0
          /\ ocrCalls >= 1
          /\ pc = "done" =>
                 llmCalls = <<LLMCall("text", "gpt-3.5-turbo", Strip(ocrText))>>

C3_Witness ==
    /\ Finished
    /\ directText = <<SP, NL>>
    /\ ocrText = <<"b", SP, NL>>
    /\ llmCalls = <<LLMCall("text", "gpt-3.5-turbo", <<"b">>)>>
    /\ visionInvoked = 0
    /\ response.status = 200

\* ------------------------------------------------------------------ C4
\* C4 (as stated): when both text tiers yield empty text, the vision tier
\* runs on exactly the first page, the text summarizer is never called and
\* the vision model's result is returned as the 200 answer, with no second
\* model call.
C4_Original ==
    (Finished /\ final_text = <<>>) =>
        /\ visionInvoked = 1
        /\ VisionRasterCount = 1
        /\ \A i \in 1..Len(rasterCalls) : rasterCalls[i].tier = "vision" =>
              (rasterCalls[i].first_page = 1 /\ rasterCalls[i].last_page = 1)
        /\ TextCallCount = 0
        /\ Len(llmCalls) <= 1
        /\ response.status = 200 /\ response.key = "answer"
        /\ response.answer = vision_summary.s

\* C4 (amended): when both text tiers yield empty text, the vision tier runs
\* on exactly the first page, the text summarizer is never called and at most
\* one model call is made; a non-empty vision result is returned directly as
\* the 200 answer, and a failed or empty one gives the 500 total-failure error.
C4_VisionFirstPageOnly ==
    /\ validated =>
          \A i \in 1..Len(rasterCalls) : rasterCalls[i].tier = "vision" =>
              (rasterCalls[i].first_page = 1 /\ rasterCalls[i].last_page = 1)
    /\ (Finished /\ final_text = <<>>) =>
          /\ visionInvoked = 1
          /\ VisionRasterCount = 1
          /\ TextCallCount = 0
          /\ Len(llmCalls) <= 1
          /\ IF TruthyOpt(vision_summary)
               THEN /\ response.status = 200 /\ response.key = "answer"
                    /\ response.answer = vision_summary.s
                    /\ Len(llmCalls) = 1 /\ llmCalls[1].kind = "vision"
               ELSE /\ response.status = 500 /\ response.key = "error"
                    /\ response.msg = TotalFailureMsg

C4_Witness ==
    /\ Finished
    /\ final_text = <<>>
    /\ ocrInvoked = 1
    /\ rasterCalls[Len(rasterCalls)] = RasterCall("vision", [first_page |-> 1, last_page |-> 1])
    /\ Len(llmCalls) = 1
    /\ llmCalls[1].kind = "vision"
    /\ response = Ok(<<"s">>)

\* ------------------------------------------------------------------ C5
\* the body is a JSON object naming, by a non-empty string, a file of the folder
NamesExistingFile(d) ==
    d.json = "object" /\ d.pdf.type = "str" /\ d.pdf.s # "" /\ d.pdf.s \in Uploads

\* C5 (as stated): with the credential absent every /chat call, whatever its
\* body, ends with the 500 "not configured" error.
C5_Original ==
    (~client /\ pc = "done") =>
        (response.status = 500 /\ response.msg = "OpenAI API key not configured")

\* C5 (amended): with the credential absent, every /chat call whose body
\* names an existing file ends with the 500 "not configured" error, and no
\* /chat call reaches an extraction tier or a model call or returns 200;
\* the filename checks still come first (400, 404).
C5_NotConfigured ==
    ~client =>
        /\ NoCalls
        /\ pc \in {"idle", "done"}
        /\ response.status # 200
        /\ (pc = "done" /\ NamesExistingFile(data)) =>
              (response.status = 500 /\ response.key = "error"
               /\ response.msg = "OpenAI API key not configured")
        /\ (pc = "done" /\ response.msg = "OpenAI API key not configured") =>
              NamesExistingFile(data)

C5_Witness ==
    /\ ~client
    /\ pc = "done"
    /\ data.pdf.s = "a.pdf"
    /\ response.status = 500
    /\ response.msg = "OpenAI API key not configured"

\* ------------------------------------------------------------------ C6
\* an exception of an extraction tier reached the caller
Surfaced == response.key = "unhandled" \/ response.msg = "Processing error"

\* C6 (as stated): when the direct or the OCR extractor raises, the exception
\* is not surfaced and the tier counts as empty, so the next tier runs
\* (direct failure -> OCR runs; OCR failure -> vision runs).
C6_Original ==
    Finished =>
        /\ (directRaised \/ ocrRaised) => ~Surfaced
        /\ directRaised => ocrInvoked = 1
        /\ ocrRaised => visionInvoked = 1

\* C6 (amended): when the direct or the OCR extractor raises, the exception
\* is not surfaced and the text accumulated before the failure is kept; the
\* next tier runs exactly when that accumulated text is empty after trimming.
C6_ExtractionFailureRecovered ==
    /\ (validated /\ (directRaised \/ ocrRaised)) => ~Surfaced
    /\ (PostCheck /\ directRaised) =>
          /\ directText = directPartial
          /\ (ocrInvoked = 1) <=> ~Truthy(Strip(directPartial))
    /\ (Finished /\ ocrRaised) =>
          /\ final_text = Strip(ocrText)
          /\ (visionInvoked = 1) <=> ~Truthy(Strip(ocrText))
          /\ (TextCallCount = 1) <=> Truthy(Strip(ocrText))

C6_Witness ==
    /\ Finished
    /\ directRaised
    /\ directPartial = <<>>
    /\ ocrInvoked = 1
    /\ ocrRaised
    /\ ocrText = <<>>
    /\ visionInvoked = 1
    /\ response.status = 200

\* ------------------------------------------------------------------ C7
\* C7 (as stated): every failed model call, text or vision, ends in a 500
\* response labelled "LLM error".
C7_Original ==
    (pc = "done" /\ llmFailed # {}) =>
        (response.status = 500 /\ response.msg = "LLM error")

\* C7 (amended): a failed text summary call ends in a 500 response labelled
\* "LLM error", a label no other outcome uses; a failed vision model call
\* ends in the 500 total-failure error.
C7_ModelCallFailure ==
    /\ (pc = "done" /\ "text" \in llmFailed) =>
          (response.status = 500 /\ response.key = "error"
           /\ response.msg = "LLM error")
    /\ (pc = "done" /\ "vision" \in llmFailed) =>
          (response.status = 500 /\ response.key = "error"
           /\ response.msg = TotalFailureMsg)
    /\ response.msg = "LLM error" => "text" \in llmFailed
    /\ llmFailed # {} => response.status # 200

C7_Witness ==
    /\ Finished
    /\ llmFailed = {"text"}
    /\ Len(llmCalls) = 1
    /\ response.status = 500
    /\ response.msg = "LLM error"

\* ------------------------------------------------------------------ C8
\* C8: a body without a (non-empty) pdf field gets 400 and a filename absent
\* from the folder gets 404, and in both cases no extraction tier, rasterizer
\* or model call is ever attempted.
C8_InputErrorsInvokeNothing ==
    /\ (pc # "idle" /\ data.json = "object" /\ PyNot(data.pdf)) =>
          /\ pc = "done"
          /\ response = Resp(400, "error", "No PDF filename provided", <<>>)
          /\ NoCalls
    /\ (pc # "idle" /\ data.json = "object" /\ data.pdf.type = "str"
        /\ data.pdf.s # "" /\ data.pdf.s \notin Uploads) =>
          /\ pc = "done"
          /\ response = Resp(404, "error", "File not found", <<>>)
          /\ NoCalls
    /\ response.status \in {400, 404} => (NoCalls /\ ~validated)

C8_Witness ==
    /\ client
    /\ pc = "done"
    /\ data.pdf.s = "ghost.pdf"
    /\ response.status = 404
    /\ NoCalls

\* ------------------------------------------------------------------ C9
\* C9: when both text tiers yield empty text and the vision summarizer fails
\* (rasterization, zero pages, encoding or API error), the response is 500
\* {"error": "Could not extract any text or summarize PDF"}, never a 200.
C9_TotalFailure ==
    /\ (Finished /\ final_text = <<>> /\ visionRaised) =>
          response = Resp(500, "error", TotalFailureMsg, <<>>)
    /\ (Finished /\ visionInvoked = 1 /\ llmCalls = <<>>) =>
          (visionRaised /\ response.status = 500 /\ response.msg = TotalFailureMsg)
    /\ (validated /\ visionRaised) => ~Surfaced

C9_Witness ==
    /\ Finished
    /\ final_text = <<>>
    /\ visionRaised
    /\ llmFailed = {"vision"}
    /\ response.status = 500
    /\ response.msg = TotalFailureMsg

\* ----------------------------------------------------------------- C10
\* C10 (as stated): within one request the PDF parser, the page rasterizer
\* and the model API are each invoked at most once.
C10_Original ==
    /\ parserCalls <= 1
    /\ Len(rasterCalls) <= 1
    /\ Len(llmCalls) <= 1

\* C10 (amended): within one request the PDF parser and the model API are
\* each invoked at most once and each tier is entered at most once; the page
\* rasterizer is invoked at most once per tier, so at most twice: once over
\* all pages by the OCR tier, then once for the first page by the vision tier.
C10_NoRetries ==
    /\ parserCalls <= 1
    /\ Len(llmCalls) <= 1
    /\ ocrInvoked <= 1
    /\ visionInvoked <= 1
    /\ Len(rasterCalls) <= 2
    /\ Len(rasterCalls) >= 1 => rasterCalls[1].tier = "ocr"
    /\ Len(rasterCalls) = 2 => rasterCalls[2].tier = "vision"

C10_Witness ==
    /\ Finished
    /\ parserCalls = 1
    /\ ocrRaised
    /\ Len(rasterCalls) = 2
    /\ rasterCalls[1].tier = "ocr"
    /\ rasterCalls[2].tier = "vision"
    /\ Len(llmCalls) = 1
====
